---- MODULE Spec2Model ----
(***************************************************************************)
(* Request orchestration of the App component of src/website.js: the three *)
(* handlers analyzeContent, summarizeContent and getMisinformationFact,    *)
(* the makeApiCall closure each invocation creates (its own retryCount),   *)
(* the timers it schedules and the React state the handlers write.         *)
(*                                                                         *)
(* Every accepted invocation creates one chain: the closure makeApiCall    *)
(* with its private retryCount.  A chain is suspended either in await      *)
(* fetch (the request is outstanding), in await response.json() (the       *)
(* response has arrived, its body has not), in a backoff timer, or, for    *)
(* analyze, in the 100 ms scroll timer; between two suspensions the code   *)
(* runs to completion, so each action below is one such run.  Timers,      *)
(* responses and bodies complete in any order: network latency and user    *)
(* gestures are not constrained by the code.                               *)
(***************************************************************************)
EXTENDS Integers, Sequences, FiniteSets, TLC

VARIABLES
    inputText,           \* useState('')      line 4
    results,             \* useState(null)    line 5
    loading,             \* useState(false)   line 6
    error,               \* useState(null)    line 7
    summary,             \* useState(null)    line 8
    isSummarizing,       \* useState(false)   line 9
    misinformationFact,  \* useState(null)    line 10
    isGettingFact,       \* useState(false)   line 11
    chains               \* per handler, the makeApiCall closures it created

vars == <<inputText, results, loading, error, summary, isSummarizing,
          misinformationFact, isGettingFact, chains>>

\* Accepted invocations (closures created) in one behaviour.
MaxChains == 2

maxRetries == 3
baseDelay == 1000
scrollDelay == 100

----------------------------------------------------------------------------
\* JavaScript values held by the state slots and carried by responses.

Null == [t |-> "null"]
Undefined == [t |-> "undefined"]
Str(s) == [t |-> "string", v |-> s]
Num(n) == [t |-> "number", v |-> n]
Obj(score, breakdown) ==
    [t |-> "object", credibilityScore |-> score, breakdown |-> breakdown]

\* JavaScript truthiness of a slot value ({x && ...}, !x).
Truthy(x) == x.t = "object" \/ (x.t = "string" /\ x.v # "")

----------------------------------------------------------------------------
\* inputText.trim(): the text is the sequence of its UTF-16 code units.

\* The code units String.prototype.trim strips (WhiteSpace and
\* LineTerminator of ECMAScript): TAB, LF, VT, FF, CR, SP, NBSP, U+1680,
\* U+2000..U+200A, U+2028, U+2029, U+202F, U+205F, U+3000, U+FEFF.
Whitespace ==
    {9, 10, 11, 12, 13, 32, 160, 5760} \cup (8192..8202)
        \cup {8232, 8233, 8239, 8287, 12288, 65279}

RECURSIVE trimStart(_)
trimStart(s) ==
    IF s # <<>> /\ Head(s) \in Whitespace THEN trimStart(Tail(s)) ELSE s

RECURSIVE trimEnd(_)
trimEnd(s) ==
    IF s # <<>> /\ s[Len(s)] \in Whitespace
    THEN trimEnd(SubSeq(s, 1, Len(s) - 1))
    ELSE s

trim(s) == trimEnd(trimStart(s))

\* The guard without the trim: only the empty text is rejected.
IsBlankNoTrim(s) == s = <<>>

\* !inputText.trim(): the empty string is the only falsy string.
IsBlank(s) == trim(s) = <<>>

\* The texts the user types into the textarea: the empty text, SP FF NBSP,
\* and TAB "a" CR.
InputTexts == { <<>>, <<32, 12, 160>>, <<9, 97, 13>> }

----------------------------------------------------------------------------
\* The coordinators and their fixed messages.

Coordinators == {"analyze", "summarize", "fact"}

ValidationMessage(c) ==
    IF c = "analyze" THEN "Please enter some text to analyze."
    ELSE "Please enter some text to summarize."

\* One message copied to all three handlers.
FailureMessageCopied(c) == "Failed to get a response. Please try again."

FailureMessage(c) ==
    CASE c = "analyze"   -> "Failed to get a response. Please try again."
      [] c = "summarize" -> "Failed to get a summary. Please try again."
      [] c = "fact"      -> "Failed to get a fact. Please try again."

----------------------------------------------------------------------------
\* What one fetch can come back with.
\*   fault : fetch rejects (transport)
\*   ok    : response.ok
\*   json  : response.json() resolves (FALSE: it rejects)
\*   text  : result.candidates?.[0]?.content?.parts?.[0]?.text

TextValid == "{\"credibilityScore\":15,\"breakdown\":\"b\"}"
TextWrongType == "{\"credibilityScore\":\"high\",\"breakdown\":\"b\"}"
TextProse == "Did you know?"

Texts == {Undefined, Str(TextValid), Str(TextWrongType), Str(TextProse)}

Responses ==
    { [fault |-> TRUE,  ok |-> FALSE, json |-> FALSE, text |-> Undefined],
      [fault |-> FALSE, ok |-> FALSE, json |-> FALSE, text |-> Undefined],
      [fault |-> FALSE, ok |-> TRUE,  json |-> FALSE, text |-> Undefined] }
    \cup { [fault |-> FALSE, ok |-> TRUE, json |-> TRUE, text |-> x] : x \in Texts }

\* JSON.parse on the texts above: a syntax error for prose.
JSONParseThrows(x) == x.v \notin {TextValid, TextWrongType}

JSONParse(x) ==
    IF x.v = TextValid THEN Obj(Num(15), Str("b"))
    ELSE Obj(Str("high"), Str("b"))

----------------------------------------------------------------------------
Init ==
    /\ inputText = <<>>
    /\ results = Null
    /\ loading = FALSE
    /\ error = Null
    /\ summary = Null
    /\ isSummarizing = FALSE
    /\ misinformationFact = Null
    /\ isGettingFact = FALSE
    /\ chains = [c \in Coordinators |-> <<>>]

----------------------------------------------------------------------------
\* One makeApiCall closure ("chain"): chains[c][k] is the closure of the k-th
\* accepted invocation of handler c.  retryCount is the closure's own
\* variable; pc is where the closure is suspended ("fetch": in await fetch,
\* "json": in await response.json(), "timer": its backoff timer is pending,
\* "scroll": the 100 ms timer of analyze is pending, "done"); delay is the
\* delay of the pending
\* timer.  requests counts the fetch calls the closure made, outcome records
\* how it ended, and solo whether no other closure of the same handler was in
\* flight at any time during it.

Chains == { <<c, k>> : c \in Coordinators, k \in 1..MaxChains + 1 }

Live == { id \in Chains : id[2] <= Len(chains[id[1]]) }

Chain(id) == chains[id[1]][id[2]]

TotalChains ==
    Len(chains["analyze"]) + Len(chains["summarize"]) + Len(chains["fact"])

InFlight(ch) == ch.pc \in {"fetch", "json", "timer"}

InFlightOf(c) == { k \in 1..Len(chains[c]) : InFlight(chains[c][k]) }

\* retryCount declared once per handler instead of per invocation: a new
\* invocation goes on from the count the previous one reached.
NewChainSharedCount(c) ==
    [retryCount |-> IF chains[c] = <<>> THEN 0
                    ELSE chains[c][Len(chains[c])].retryCount,
     pc |-> "fetch", delay |-> 0,
     requests |-> 1, outcome |-> "pending", solo |-> InFlightOf(c) = {}]

\* let retryCount = 0; ...; makeApiCall();  the first fetch is issued in the
\* same run as the invocation.
NewChain(c) ==
    [retryCount |-> 0, pc |-> "fetch", delay |-> 0,
     requests |-> 1, outcome |-> "pending", solo |-> InFlightOf(c) = {}]

StartChain(c) ==
    [chains EXCEPT ![c] =
        Append([k \in 1..Len(chains[c]) |->
                   IF k \in InFlightOf(c)
                   THEN [chains[c][k] EXCEPT !.solo = FALSE]
                   ELSE chains[c][k]],
               NewChain(c))]

\* The guard giving up one attempt early: retryCount < maxRetries - 1.
CanRetryOneLess(ch) == ch.retryCount < maxRetries - 1

\* The guard off by one: retryCount <= maxRetries.
CanRetryOffByOne(ch) == ch.retryCount <= maxRetries

\* if (retryCount < maxRetries)
CanRetry(ch) == ch.retryCount < maxRetries

\* The delay growing linearly: baseDelay * 2 * retryCount.
DelayLinear(retryCount) == baseDelay * 2 * retryCount

\* const delay = baseDelay * (2 ** retryCount);  after retryCount++
Delay(retryCount) == baseDelay * (2 ^ retryCount)

\* The retry branch calling makeApiCall() at once as well as scheduling it.
BackoffAlsoCallsNow(ch) ==
    [ch EXCEPT !.retryCount = ch.retryCount + 1,
               !.delay = baseDelay * (2 ^ (ch.retryCount + 1)),
               !.pc = "timer",
               !.requests = ch.requests + 1]

\* The retry branch without its setTimeout: nothing resumes the closure.
BackoffForgetsTimer(ch) ==
    [ch EXCEPT !.retryCount = ch.retryCount + 1, !.pc = "idle"]

\* retryCount++; setTimeout(makeApiCall, delay);
Backoff(ch) ==
    [ch EXCEPT !.retryCount = ch.retryCount + 1,
               !.delay = Delay(ch.retryCount + 1),
               !.pc = "timer"]

\* the else branch of the catch block: the chain ends
Exhausted(ch) == [ch EXCEPT !.pc = "done", !.outcome = "failure"]

\* the try block ran to its end; analyze leaves its 100 ms timer pending
Succeeded(ch, pc) ==
    [ch EXCEPT !.pc = pc, !.outcome = "success",
               !.delay = IF pc = "scroll" THEN scrollDelay ELSE 0]

----------------------------------------------------------------------------
\* The handlers.

analyzeContent ==
    IF IsBlank(inputText)
    THEN /\ error' = Str(ValidationMessage("analyze"))
         /\ UNCHANGED <<inputText, results, loading, summary, isSummarizing,
                        misinformationFact, isGettingFact, chains>>
    ELSE /\ TotalChains < MaxChains
         /\ loading' = TRUE
         /\ results' = Null
         /\ error' = Null
         /\ chains' = StartChain("analyze")
         /\ UNCHANGED <<inputText, summary, isSummarizing,
                        misinformationFact, isGettingFact>>

summarizeContent ==
    IF IsBlank(inputText)
    THEN /\ error' = Str(ValidationMessage("summarize"))
         /\ UNCHANGED <<inputText, results, loading, summary, isSummarizing,
                        misinformationFact, isGettingFact, chains>>
    ELSE /\ TotalChains < MaxChains
         /\ isSummarizing' = TRUE
         /\ summary' = Null
         /\ chains' = StartChain("summarize")
         /\ UNCHANGED <<inputText, results, loading, error,
                        misinformationFact, isGettingFact>>

getMisinformationFact ==
    /\ TotalChains < MaxChains
    /\ isGettingFact' = TRUE
    /\ misinformationFact' = Null
    /\ error' = Null
    /\ chains' = StartChain("fact")
    /\ UNCHANGED <<inputText, results, loading, summary, isSummarizing>>

----------------------------------------------------------------------------
\* makeApiCall resumed.  The closure suspends twice per attempt: in await
\* fetch(...) and, when the response is 2xx, in await response.json().  r is
\* what the request comes back with; the first run sees r.fault and r.ok, the
\* second the body.

\* await fetch(...) rejects, or if (!response.ok) throw
FetchThrows(r) == r.fault \/ ~r.ok

\* the statements of the try block of analyze that throw
AnalyzeThrows(r) ==
    \/ r.fault                      \* await fetch(...) rejects
    \/ ~r.ok                        \* if (!response.ok) throw
    \/ ~r.json                      \* await response.json() rejects
    \/ ~Truthy(r.text)              \* if (!jsonText) throw
    \/ JSONParseThrows(r.text)      \* JSON.parse(jsonText) throws

\* the statements of the try block of summarize and of fact that throw
PlainTextThrows(r) ==
    \/ r.fault
    \/ ~r.ok
    \/ ~r.json

\* The catch block writing the message on every failure, retried or not.
CatchSurfacesEach(c, k) ==
    /\ chains' = [chains EXCEPT ![c][k] =
                     IF CanRetry(@) THEN Backoff(@) ELSE Exhausted(@)]
    /\ error' = Str(FailureMessage(c))

\* the catch block of the closure k of handler c
Catch(c, k) ==
    IF CanRetry(chains[c][k])
    THEN /\ chains' = [chains EXCEPT ![c][k] = Backoff(@)]
         /\ UNCHANGED error
    ELSE /\ chains' = [chains EXCEPT ![c][k] = Exhausted(@)]
         /\ error' = Str(FailureMessage(c))

\* the closure goes on to await response.json(): no state is written and the
\* finally block has not run
AwaitJson(c, k) == [chains EXCEPT ![c][k].pc = "json"]

\* await fetch settles: catch and finally on a rejection or a non-2xx status,
\* otherwise the closure suspends again
analyzeAwaitFetch(k, r) ==
    /\ k \in 1..Len(chains["analyze"])
    /\ chains["analyze"][k].pc = "fetch"
    /\ IF FetchThrows(r)
       THEN /\ Catch("analyze", k)
            /\ loading' = FALSE
       ELSE /\ chains' = AwaitJson("analyze", k)
            /\ UNCHANGED <<error, loading>>
    /\ UNCHANGED <<inputText, results, summary, isSummarizing,
                   misinformationFact, isGettingFact>>

\* await response.json() settles: the rest of the try block, the catch block
\* and the finally block
analyzeAwaitJson(k, r) ==
    /\ k \in 1..Len(chains["analyze"])
    /\ chains["analyze"][k].pc = "json"
    /\ ~FetchThrows(r)
    /\ IF AnalyzeThrows(r)
       THEN /\ Catch("analyze", k)
            /\ UNCHANGED results
       ELSE /\ results' = JSONParse(r.text)
            /\ chains' = [chains EXCEPT !["analyze"][k] = Succeeded(@, "scroll")]
            /\ UNCHANGED error
    /\ loading' = FALSE
    /\ UNCHANGED <<inputText, summary, isSummarizing,
                   misinformationFact, isGettingFact>>

analyzeMakeApiCall(k, r) == analyzeAwaitFetch(k, r) \/ analyzeAwaitJson(k, r)

summarizeAwaitFetch(k, r) ==
    /\ k \in 1..Len(chains["summarize"])
    /\ chains["summarize"][k].pc = "fetch"
    /\ IF FetchThrows(r)
       THEN /\ Catch("summarize", k)
            /\ isSummarizing' = FALSE
       ELSE /\ chains' = AwaitJson("summarize", k)
            /\ UNCHANGED <<error, isSummarizing>>
    /\ UNCHANGED <<inputText, results, loading, summary,
                   misinformationFact, isGettingFact>>

summarizeAwaitJson(k, r) ==
    /\ k \in 1..Len(chains["summarize"])
    /\ chains["summarize"][k].pc = "json"
    /\ ~FetchThrows(r)
    /\ IF PlainTextThrows(r)
       THEN /\ Catch("summarize", k)
            /\ UNCHANGED summary
       ELSE /\ summary' = r.text
            /\ chains' = [chains EXCEPT !["summarize"][k] = Succeeded(@, "done")]
            /\ UNCHANGED error
    /\ isSummarizing' = FALSE
    /\ UNCHANGED <<inputText, results, loading,
                   misinformationFact, isGettingFact>>

summarizeMakeApiCall(k, r) ==
    summarizeAwaitFetch(k, r) \/ summarizeAwaitJson(k, r)

factAwaitFetch(k, r) ==
    /\ k \in 1..Len(chains["fact"])
    /\ chains["fact"][k].pc = "fetch"
    /\ IF FetchThrows(r)
       THEN /\ Catch("fact", k)
            /\ isGettingFact' = FALSE
       ELSE /\ chains' = AwaitJson("fact", k)
            /\ UNCHANGED <<error, isGettingFact>>
    /\ UNCHANGED <<inputText, results, loading, summary, isSummarizing,
                   misinformationFact>>

factAwaitJson(k, r) ==
    /\ k \in 1..Len(chains["fact"])
    /\ chains["fact"][k].pc = "json"
    /\ ~FetchThrows(r)
    /\ IF PlainTextThrows(r)
       THEN /\ Catch("fact", k)
            /\ UNCHANGED misinformationFact
       ELSE /\ misinformationFact' = r.text
            /\ chains' = [chains EXCEPT !["fact"][k] = Succeeded(@, "done")]
            /\ UNCHANGED error
    /\ isGettingFact' = FALSE
    /\ UNCHANGED <<inputText, results, loading, summary, isSummarizing>>

factMakeApiCall(k, r) == factAwaitFetch(k, r) \/ factAwaitJson(k, r)

\* setTimeout(makeApiCall, delay) fires: makeApiCall runs up to its fetch
RetryTimer(id) ==
    /\ Chain(id).pc = "timer"
    /\ chains' = [chains EXCEPT ![id[1]][id[2]] =
                     [@ EXCEPT !.pc = "fetch", !.delay = 0,
                               !.requests = @ + 1]]
    /\ UNCHANGED <<inputText, results, loading, error, summary, isSummarizing,
                   misinformationFact, isGettingFact>>

\* The 100 ms timer given makeApiCall as its callback: the request is sent
\* again after the success.
ScrollTimerCallsAgain(id) ==
    /\ Chain(id).pc = "scroll"
    /\ chains' = [chains EXCEPT ![id[1]][id[2]] =
                     [@ EXCEPT !.pc = "fetch", !.delay = 0,
                               !.requests = @ + 1]]
    /\ UNCHANGED <<inputText, results, loading, error, summary, isSummarizing,
                   misinformationFact, isGettingFact>>

\* the 100 ms timer of analyze fires: scrollIntoView writes no state
ScrollTimer(id) ==
    /\ Chain(id).pc = "scroll"
    /\ chains' = [chains EXCEPT ![id[1]][id[2]] =
                     [@ EXCEPT !.pc = "done", !.delay = 0]]
    /\ UNCHANGED <<inputText, results, loading, error, summary, isSummarizing,
                   misinformationFact, isGettingFact>>

\* onChange of the textarea
setInputText(t) ==
    /\ inputText' = t
    /\ UNCHANGED <<results, loading, error, summary, isSummarizing,
                   misinformationFact, isGettingFact, chains>>

----------------------------------------------------------------------------
\* The buttons: a click reaches the handler only while the button is enabled.

ClickAnalyze == ~loading /\ analyzeContent

ClickSummarize == ~(isSummarizing \/ IsBlank(inputText)) /\ summarizeContent

ClickFact == ~isGettingFact /\ getMisinformationFact

AnalyzeResponse ==
    \E k \in 1..MaxChains + 1 : \E r \in Responses : analyzeMakeApiCall(k, r)

SummarizeResponse ==
    \E k \in 1..MaxChains + 1 : \E r \in Responses : summarizeMakeApiCall(k, r)

FactResponse ==
    \E k \in 1..MaxChains + 1 : \E r \in Responses : factMakeApiCall(k, r)

RetryTimerFires == \E id \in Live : RetryTimer(id)

ScrollTimerFires == \E id \in Live : ScrollTimer(id)

Typing == \E t \in InputTexts : setInputText(t)

\* The page driven through its controls.
Next ==
    \/ ClickAnalyze
    \/ ClickSummarize
    \/ ClickFact
    \/ Typing
    \/ AnalyzeResponse
    \/ SummarizeResponse
    \/ FactResponse
    \/ RetryTimerFires
    \/ ScrollTimerFires

Spec == Init /\ [][Next]_vars

\* The handlers called by any caller, whatever the buttons show.
NextDirect ==
    \/ analyzeContent
    \/ summarizeContent
    \/ getMisinformationFact
    \/ Typing
    \/ AnalyzeResponse
    \/ SummarizeResponse
    \/ FactResponse
    \/ RetryTimerFires
    \/ ScrollTimerFires

SpecDirect == Init /\ [][NextDirect]_vars

----------------------------------------------------------------------------
\* The coordinator's view of the state: its busy flag, its result slot and
\* its error slot.  The component holds one error state for all three.

Busy(c) ==
    CASE c = "analyze"   -> loading
      [] c = "summarize" -> isSummarizing
      [] c = "fact"      -> isGettingFact

Result(c) ==
    CASE c = "analyze"   -> results
      [] c = "summarize" -> summary
      [] c = "fact"      -> misinformationFact

ErrorSlot(c) == error

\* A step of coordinator c: its handler ran, or one of its closures resumed.
Invokes(c) ==
    CASE c = "analyze"   -> analyzeContent
      [] c = "summarize" -> summarizeContent
      [] c = "fact"      -> getMisinformationFact

Resumes(c, k, r) ==
    CASE c = "analyze"   -> analyzeMakeApiCall(k, r)
      [] c = "summarize" -> summarizeMakeApiCall(k, r)
      [] c = "fact"      -> factMakeApiCall(k, r)

\* The run of closure k of c in which the body of its response settles.
Settles(c, k, r) ==
    CASE c = "analyze"   -> analyzeAwaitJson(k, r)
      [] c = "summarize" -> summarizeAwaitJson(k, r)
      [] c = "fact"      -> factAwaitJson(k, r)

\* A new closure of c was created in this step.
Accepted(c) == Len(chains'[c]) = Len(chains[c]) + 1

----------------------------------------------------------------------------
\* C1: a chain never makes more than 4 requests; while its backoff timer is
\* pending it has made at most 3 (so the timer's request is at most the 4th);
\* a chain that ended in failure ended after exactly 4 requests, all failed
\* (retryCount = 3), and a chain of fewer requests is never given up.
C1_RetryBound ==
    \A id \in Live :
        LET ch == Chain(id) IN
        /\ ch.requests \in 1..4
        /\ ch.pc = "timer" => ch.requests <= 3
        /\ ch.outcome = "failure" =>
              ch.requests = 4 /\ ch.retryCount = 3 /\ ch.pc = "done"
        /\ (ch.outcome = "pending" /\ ch.pc \in {"fetch", "json"}) =>
              ch.requests = ch.retryCount + 1

C1_Witness ==
    \E id \in Live :
        /\ Chain(id).outcome = "failure"
        /\ Chain(id).requests = 4
        /\ error = Str(FailureMessage(id[1]))

\* C2 (as claimed, for analyze, the handler that inspects the text): when the
\* first request of an invocation comes back 2xx with the text field absent,
\* or with a text that is not JSON, the chain ends at once in failure: no
\* backoff timer is scheduled and no further request is issued.
AbsentText == [fault |-> FALSE, ok |-> TRUE, json |-> TRUE, text |-> Undefined]
ProseText == [fault |-> FALSE, ok |-> TRUE, json |-> TRUE, text |-> Str(TextProse)]

C2_InterpretationNeverRetried ==
    [][\A k \in 1..Len(chains["analyze"]) : \A r \in {AbsentText, ProseText} :
         (chains["analyze"][k].requests = 1 /\ analyzeAwaitJson(k, r)) =>
             /\ chains'["analyze"][k].pc = "done"
             /\ chains'["analyze"][k].outcome = "failure"
             /\ chains'["analyze"][k].delay = 0
             /\ chains'["analyze"][k].requests = 1]_vars

\* C3 (as claimed): driven through the buttons, no coordinator ever has two
\* chains in flight (request outstanding or backoff timer pending).
C3_OneChainInFlight ==
    \A c \in Coordinators : Cardinality(InFlightOf(c)) <= 1

\* C4 (as claimed): a coordinator is busy in every state in which one of its
\* chains is in flight (request outstanding or backoff timer pending).
C4_BusyWhileInFlight ==
    \A c \in Coordinators : InFlightOf(c) # {} => Busy(c)

\* C5 (as claimed): a step of one coordinator (invocation, validation
\* rejection, attempt success, attempt failure, terminal failure) leaves the
\* busy flag, result slot and error slot of the other two unchanged.
C5_NoSharedState ==
    [][\A c \in Coordinators :
         (Invokes(c) \/ \E k \in 1..Len(chains[c]) : \E r \in Responses :
                            Resumes(c, k, r)) =>
            \A d \in Coordinators \ {c} :
                /\ Busy(d)' = Busy(d)
                /\ Result(d)' = Result(d)
                /\ ErrorSlot(d)' = ErrorSlot(d)]_vars

\* C6 (as claimed): a coordinator that is not busy and has completed an
\* operation never has both its result slot and its error slot non-null.
Completed(c) == \E k \in 1..Len(chains[c]) : chains[c][k].outcome # "pending"

C6_ResultErrorExclusive ==
    \A c \in Coordinators :
        (~Busy(c) /\ Completed(c)) =>
            ~(Result(c) # Null /\ ErrorSlot(c) # Null)

\* C7 (as claimed): every accepted invocation leaves its coordinator busy
\* with its result slot and its error slot null.
C7_InvocationClears ==
    [][\A c \in Coordinators :
         (Invokes(c) /\ Accepted(c)) =>
            /\ Busy(c)'
            /\ Result(c)' = Null
            /\ ErrorSlot(c)' = Null]_vars

\* C8: the step in which a chain gives up (its 4th request failed), no other
\* chain of its coordinator having been in flight during it, leaves the
\* coordinator not busy, its result slot null and the error slot holding the
\* coordinator's fixed message.
C8_ExhaustedState ==
    [][\A id \in Live :
         LET c == id[1]
             k == id[2] IN
         (chains[c][k].outcome = "pending" /\ chains'[c][k].outcome = "failure"
            /\ chains[c][k].solo) =>
            /\ ~Busy(c)'
            /\ Result(c)' = Null
            /\ ErrorSlot(c)' =
                 Str(CASE c = "analyze" ->
                            "Failed to get a response. Please try again."
                       [] c = "summarize" ->
                            "Failed to get a summary. Please try again."
                       [] c = "fact" ->
                            "Failed to get a fact. Please try again.")]_vars

C8_Witness ==
    \E id \in Live :
        /\ Chain(id).outcome = "failure"
        /\ Chain(id).solo
        /\ Len(chains[id[1]]) = 2
        /\ chains[id[1]][1].outcome = "success"
        /\ ~Busy(id[1])
        /\ Result(id[1]) = Null
        /\ error = Str(FailureMessage(id[1]))

\* C9 (as claimed): the step in which an attempt succeeds leaves the
\* coordinator not busy, its result slot holding the extracted payload and
\* its error slot null, whatever the error slot held.
C9_SuccessState ==
    [][\A c \in Coordinators : \A k \in 1..Len(chains[c]) :
         \A r \in Responses :
            (Resumes(c, k, r) /\ chains'[c][k].outcome = "success") =>
                /\ ~Busy(c)'
                /\ Result(c)' = (IF c = "analyze" THEN JSONParse(r.text)
                                 ELSE r.text)
                /\ ErrorSlot(c)' = Null]_vars

\* C10: analyze or summarize invoked with a text of whitespace only writes the
\* action's validation message to the error slot and creates no closure (no
\* request, no timer) and changes nothing else; fact invoked with any text
\* creates a closure whose first request is outstanding.
AllWhitespace(s) ==
    \A i \in 1..Len(s) :
        \/ s[i] \in 9..13
        \/ s[i] \in {32, 160, 5760, 8232, 8233, 8239, 8287, 12288, 65279}
        \/ s[i] \in 8192..8202

C10_ValidationNoNetwork ==
    [][/\ (AllWhitespace(inputText) /\ analyzeContent) =>
            /\ error' = Str("Please enter some text to analyze.")
            /\ UNCHANGED <<chains, results, loading>>
       /\ (AllWhitespace(inputText) /\ summarizeContent) =>
            /\ error' = Str("Please enter some text to summarize.")
            /\ UNCHANGED <<chains, summary, isSummarizing>>
       /\ getMisinformationFact =>
            /\ Accepted("fact")
            /\ chains'["fact"][Len(chains'["fact"])].pc = "fetch"
            /\ chains'["fact"][Len(chains'["fact"])].requests = 1]_vars

C10_Witness ==
    /\ error = Str("Please enter some text to summarize.")
    /\ inputText = <<32, 12, 160>>
    /\ TotalChains = 0

\* C11 (as claimed): for analyze, a 2xx response whose text is JSON with a
\* string credibilityScore is a failure: the parsed payload is not stored in
\* the result slot, the error slot is set and no retry is scheduled.
WrongTypeText ==
    [fault |-> FALSE, ok |-> TRUE, json |-> TRUE, text |-> Str(TextWrongType)]

C11_SchemaMismatchRejected ==
    [][\A k \in 1..Len(chains["analyze"]) :
         analyzeAwaitJson(k, WrongTypeText) =>
             /\ results' # Obj(Str("high"), Str("b"))
             /\ error' # Null
             /\ chains'["analyze"][k].outcome = "failure"
             /\ chains'["analyze"][k].pc = "done"]_vars

\* C12 (as claimed): for summarize and fact, a 2xx response without the text
\* field does not end the chain in success, and does not leave the
\* coordinator idle with an empty result and a null error.
C12_AbsentTextIsFailure ==
    [][\A c \in {"summarize", "fact"} : \A k \in 1..Len(chains[c]) :
         Settles(c, k, AbsentText) =>
             /\ chains'[c][k].outcome # "success"
             /\ ~(~Busy(c)' /\ ~Truthy(Result(c)') /\ ErrorSlot(c)' = Null)]_vars

\* C13: the backoff timer pending after the k-th consecutive failure of a
\* chain (k requests made, all failed) has delay 2000, 4000, 8000 ms for
\* k = 1, 2, 3; a chain that gave up after its 4th failure has no timer, and
\* no backoff timer is pending while a request is outstanding.
C13_BackoffDelays ==
    \A id \in Live :
        LET ch == Chain(id) IN
        /\ ch.pc = "timer" =>
              /\ ch.retryCount \in 1..3
              /\ ch.requests = ch.retryCount
              /\ ch.delay = (CASE ch.retryCount = 1 -> 2000
                               [] ch.retryCount = 2 -> 4000
                               [] ch.retryCount = 3 -> 8000)
        /\ ch.outcome = "failure" => ch.delay = 0
        /\ ch.pc \in {"fetch", "json"} => ch.delay = 0

C13_Witness ==
    \A c \in {"analyze", "fact"} :
        \E k \in 1..Len(chains[c]) :
            /\ chains[c][k].pc = "timer"
            /\ chains[c][k].requests = 3
            /\ chains[c][k].delay = 8000

\* C14: the final state does not depend on the number of failures before the
\* success.  A failed attempt that is retried leaves the result slot and the
\* error slot as they were; the attempt that succeeds with the valid body,
\* whichever it is (1st to 4th), leaves the coordinator not busy, the result
\* slot holding that body's payload and the error slot as it was.
ValidText ==
    [fault |-> FALSE, ok |-> TRUE, json |-> TRUE, text |-> Str(TextValid)]

C14_SuccessIndependentOfAttempts ==
    [][\A c \in Coordinators : \A k \in 1..Len(chains[c]) :
         /\ (chains[c][k].pc \in {"fetch", "json"}
                /\ chains'[c][k].pc = "timer") =>
               /\ Result(c)' = Result(c)
               /\ ErrorSlot(c)' = ErrorSlot(c)
         /\ Settles(c, k, ValidText) =>
               /\ chains'[c][k].outcome = "success"
               /\ ~Busy(c)'
               /\ Result(c)' = (IF c = "analyze" THEN Obj(Num(15), Str("b"))
                                ELSE Str(TextValid))
               /\ ErrorSlot(c)' = ErrorSlot(c)]_vars

C14_Witness ==
    \E k \in 1..Len(chains["analyze"]) :
        /\ chains["analyze"][k].outcome = "success"
        /\ chains["analyze"][k].requests = 4
        /\ chains["analyze"][k].solo
        /\ results = Obj(Num(15), Str("b"))
        /\ ~loading
        /\ error = Null

----------------------------------------------------------------------------
\* The page under the assumption that every outstanding request eventually
\* returns (with whatever outcome) and every pending timer eventually fires.
\* The user is under no obligation to click or type.

Fairness ==
    \A c \in Coordinators : \A k \in 1..MaxChains :
        /\ WF_vars(\E r \in Responses : Resumes(c, k, r))
        /\ WF_vars(<<c, k>> \in Live /\ RetryTimer(<<c, k>>))
        /\ WF_vars(<<c, k>> \in Live /\ ScrollTimer(<<c, k>>))

SpecFair == Init /\ [][Next]_vars /\ Fairness

\* C15: every accepted invocation runs to completion: its chain eventually
\* reaches its terminal outcome (success or exhausted retries) in a state
\* where its coordinator is not busy and the chain has no request outstanding
\* and no backoff timer pending, and eventually has no timer at all, whatever
\* the other coordinators do meanwhile.
C15_RunsToCompletion ==
    \A c \in Coordinators : \A k \in 1..MaxChains :
        /\ (k <= Len(chains[c])) ~>
              (/\ k <= Len(chains[c])
               /\ chains[c][k].outcome \in {"success", "failure"}
               /\ ~InFlight(chains[c][k])
               /\ ~Busy(c))
        /\ (k <= Len(chains[c])) ~>
              (k <= Len(chains[c]) /\ chains[c][k].pc = "done")

C15_Witness ==
    /\ Len(chains["analyze"]) = 1
    /\ Len(chains["fact"]) = 1
    /\ chains["analyze"][1].outcome = "failure"
    /\ chains["analyze"][1].pc = "done"
    /\ chains["fact"][1].outcome = "success"
    /\ chains["fact"][1].requests = 2
    /\ ~loading
    /\ ~isGettingFact

----------------------------------------------------------------------------
\* The requests of a closure that have been answered: each retried failure
\* incremented retryCount, and the attempt that ended the chain is one more.
Answered(ch) == ch.retryCount + (IF ch.outcome = "pending" THEN 0 ELSE 1)

\* The requests of a closure still outstanding.
Outstanding(ch) == ch.requests - Answered(ch)

\* C16: the attempts of a chain are strictly sequential.  A chain has at most
\* one request outstanding, and none while its backoff timer is pending; a
\* request is issued (after the first) only by the chain's backoff timer
\* firing, and a backoff timer is scheduled only by the failure of the
\* chain's outstanding request.
C16_SequentialAttempts ==
    [][\A c \in Coordinators : \A k \in 1..Len(chains'[c]) :
         LET new == chains'[c][k] IN
         /\ Outstanding(new) \in {0, 1}
         /\ Outstanding(new) = 1 <=> new.pc \in {"fetch", "json"}
         /\ new.pc = "timer" => Outstanding(new) = 0
         /\ k <= Len(chains[c]) =>
               LET old == chains[c][k] IN
               /\ new.requests # old.requests =>
                     /\ new.requests = old.requests + 1
                     /\ old.pc = "timer"
                     /\ new.pc = "fetch"
                     /\ Outstanding(old) = 0
               /\ (new.pc = "timer" /\ old.pc # "timer") =>
                     /\ old.pc \in {"fetch", "json"}
                     /\ new.retryCount = old.retryCount + 1
                     /\ new.requests = old.requests]_vars

C16_Witness ==
    \E id \in Live :
        /\ Chain(id).pc = "fetch"
        /\ Chain(id).requests = 3
        /\ Chain(id).retryCount = 2
        /\ Outstanding(Chain(id)) = 1

----------------------------------------------------------------------------
\* C17: transport and status failures are surfaced only after exhaustion.  The
\* attempt of a chain that fails and is retried (its 1st, 2nd or 3rd), and the
\* attempt that succeeds, leave the error slot as it was; an attempt changes
\* the error slot only when it is the chain's 4th request failing, and then
\* to the coordinator's fixed message.
C17_SurfacedOnlyAfterExhaustion ==
    [][\A c \in Coordinators : \A k \in 1..Len(chains[c]) :
         (chains[c][k].pc \in {"fetch", "json"}
            /\ chains'[c][k].pc # chains[c][k].pc) =>
            /\ chains'[c][k].outcome # "failure" => error' = error
            /\ chains'[c][k].outcome = "failure" =>
                  /\ chains[c][k].requests = 4
                  /\ chains[c][k].retryCount = 3
                  /\ error' =
                       Str(CASE c = "analyze" ->
                                  "Failed to get a response. Please try again."
                             [] c = "summarize" ->
                                  "Failed to get a summary. Please try again."
                             [] c = "fact" ->
                                  "Failed to get a fact. Please try again.")]_vars

C17_Witness ==
    \E id \in Live :
        /\ Chain(id).pc = "timer"
        /\ Chain(id).retryCount = 3
        /\ Chain(id).requests = 3
        /\ error = Null

----------------------------------------------------------------------------
\* C18: retryCount is private to one invocation and bounded.  Every closure
\* is created with retryCount = 0, whatever the closures before it reached; a
\* closure's retryCount changes only by +1, and only in the step in which that
\* closure's own outstanding request fails and is retried; no step changes the
\* retryCount of two closures; and 0 <= retryCount <= 3 throughout.
C18_RetryCountPrivate ==
    [][/\ \A c \in Coordinators : \A k \in 1..Len(chains'[c]) :
            LET new == chains'[c][k] IN
            /\ new.retryCount \in 0..3
            /\ k > Len(chains[c]) => new.retryCount = 0
            /\ k <= Len(chains[c]) =>
                  LET old == chains[c][k] IN
                  \/ new.retryCount = old.retryCount
                  \/ /\ new.retryCount = old.retryCount + 1
                     /\ old.pc \in {"fetch", "json"}
                     /\ new.pc = "timer"
       /\ Cardinality({ id \in Live :
                          chains'[id[1]][id[2]].retryCount
                              # Chain(id).retryCount }) <= 1]_vars

C18_Witness ==
    \E c \in Coordinators :
        /\ Len(chains[c]) = 2
        /\ chains[c][1].retryCount = 3
        /\ InFlight(chains[c][1])
        /\ chains[c][2].retryCount = 0
        /\ chains[c][2].pc = "fetch"

----------------------------------------------------------------------------
\* C19: a chain that has succeeded is finished.  It makes no further request
\* and has no backoff timer; its only later step is the firing of the 100 ms
\* timer, which writes no slot (result, error, busy).  The 100 ms timer is
\* pending only for a chain of analyze that succeeded; a chain of summarize
\* or fact that succeeded has no timer at all.
C19_NothingAfterSuccess ==
    [][\A c \in Coordinators : \A k \in 1..Len(chains'[c]) :
         LET new == chains'[c][k] IN
         /\ new.pc = "scroll" =>
               c = "analyze" /\ new.outcome = "success" /\ new.delay = 100
         /\ new.outcome = "success" =>
               /\ new.pc \in {"scroll", "done"}
               /\ c # "analyze" => (new.pc = "done" /\ new.delay = 0)
         /\ (k <= Len(chains[c]) /\ chains[c][k].outcome = "success") =>
               LET old == chains[c][k] IN
               /\ new.outcome = "success"
               /\ new.requests = old.requests
               /\ new.retryCount = old.retryCount
               /\ new.pc \in {old.pc, "done"}
               /\ new # old =>
                     UNCHANGED <<results, summary, misinformationFact, error,
                                 loading, isSummarizing, isGettingFact>>]_vars

C19_Witness ==
    /\ Len(chains["analyze"]) = 1
    /\ chains["analyze"][1].outcome = "success"
    /\ chains["analyze"][1].pc = "done"
    /\ chains["analyze"][1].requests = 2
    /\ results = Obj(Num(15), Str("b"))
    /\ Len(chains["summarize"]) = 1
    /\ chains["summarize"][1].outcome = "success"
    /\ summary = Str(TextProse)

====
